---- MODULE Spec2Model ----
(***************************************************************************)
(* State-machine model of GameEngine (src/react-app/game/GameEngine.ts,    *)
(* first class, lines 5-2011): the shot controller, the validity guard of  *)
(* the frame loop, the hole-capture logic and the first-person camera.     *)
(*                                                                         *)
(* Units.  Lengths, velocities and forces are fixed-point integers in      *)
(* hundredths (0.3 is 30).  Normalised mouse coordinates are in units of   *)
(* 0.05 (the minimum drag length), so [-1,1] is -20..20.  The follow       *)
(* distance of the camera is in tenths.  The camera yaw is counted in      *)
(* quarter turns away from the angle calculateGoalDirection sets.          *)
(* IEEE non-finite values are the sentinels NaN, PosInf and NegInf.        *)
(* CANNON's world.step is external: a frame draws the ball's position and  *)
(* velocity after the step from a finite set of outcomes.                  *)
(***************************************************************************)
EXTENDS Integers, Sequences, FiniteSets, TLC

-----------------------------------------------------------------------------
(* Bounds of the model *)

MaxStrokes == 2

-----------------------------------------------------------------------------
(* IEEE values and fixed-point helpers *)

PosInf == 1000000000
NegInf == 0 - 1000000000
NaN == 1000000001

IsNaN(a) == a = NaN
IsFinite(a) == a > NegInf /\ a < PosInf

\* a < b and a > b as JavaScript evaluates them: false when an operand is NaN
Lt(a, b) == ~IsNaN(a) /\ ~IsNaN(b) /\ a < b
Gt(a, b) == ~IsNaN(a) /\ ~IsNaN(b) /\ a > b
Le(a, b) == ~IsNaN(a) /\ ~IsNaN(b) /\ a <= b

Min(a, b) == IF a < b THEN a ELSE b
Max(a, b) == IF a > b THEN a ELSE b
Abs(a) == IF a < 0 THEN 0 - a ELSE a

RECURSIVE SqrtSearch(_, _, _)
SqrtSearch(n, lo, hi) ==
  IF lo >= hi THEN lo
  ELSE LET mid == (lo + hi + 1) \div 2
       IN IF mid * mid <= n THEN SqrtSearch(n, mid, hi)
                            ELSE SqrtSearch(n, lo, mid - 1)

\* Math.sqrt on fixed-point operands: the integer part of the root
ISqrt(n) == SqrtSearch(n, 0, 46340)

Vec3(x, y, z) == [x |-> x, y |-> y, z |-> z]
ZeroVec == Vec3(0, 0, 0)
VecFinite(v) == IsFinite(v.x) /\ IsFinite(v.y) /\ IsFinite(v.z)

\* a + b, a * n / d on IEEE operands: a non-finite operand gives NaN here
\* (the sign of an infinity is not tracked through arithmetic)
FAdd(a, b) == IF IsFinite(a) /\ IsFinite(b) THEN a + b ELSE NaN
FSub(a, b) == IF IsFinite(a) /\ IsFinite(b) THEN a - b ELSE NaN
FScale(a, n, d) == IF IsFinite(a) /\ IsFinite(n) THEN (a * n) \div d ELSE NaN
FAbs(a) == IF IsFinite(a) THEN Abs(a) ELSE NaN
\* Math.min(a, b): NaN when an operand is NaN
FMin(a, b) == IF IsNaN(a) \/ IsNaN(b) THEN NaN ELSE Min(a, b)

\* Vec3.length() squared; NaN when a component is not finite
Length2(v) == IF VecFinite(v) THEN v.x * v.x + v.y * v.y + v.z * v.z ELSE NaN

-----------------------------------------------------------------------------
(* Level catalogue *)

Levels == 1..5

\* The cases of the switch in setupCourse
courseDefined(l) == l \in Levels

\* Variant: a start position on top of the hole
ballStartPos_onHole(l) ==
  CASE l = 1 -> Vec3(0, 30, 0 - 1200)
    [] l = 2 -> Vec3(0, 30, 0 - 1800)
    [] l = 3 -> Vec3(0 - 1000, 30, 1000)
    [] l = 4 -> Vec3(0, 30, 0 - 1400)
    [] l = 5 -> Vec3(0, 30, 0 - 1500)
    [] OTHER -> Vec3(0, 30, 0 - 1200)

\* ballStartPos: the level's start, or the field initialiser (0, 0.5, 8) for
\* an id without a course
ballStartPos(l) ==
  CASE l = 1 -> Vec3(0, 30, 800)
    [] l = 2 -> Vec3(0, 30, 1200)
    [] l = 3 -> Vec3(0, 880, 0)
    [] l = 4 -> Vec3(0, 30, 1000)
    [] l = 5 -> Vec3(0, 30, 1500)
    [] OTHER -> Vec3(0, 50, 800)

\* x and z of the hole (holeBody.position; its y is never read by animate);
\* for an id without a course, the field initialiser of holePosition
holePosition(l) ==
  CASE l = 1 -> [x |-> 0, z |-> 0 - 1200]
    [] l = 2 -> [x |-> 0, z |-> 0 - 1800]
    [] l = 3 -> [x |-> 0 - 1000, z |-> 1000]
    [] l = 4 -> [x |-> 0, z |-> 0 - 1400]
    [] l = 5 -> [x |-> 0, z |-> 0 - 1500]
    [] OTHER -> [x |-> 0, z |-> 0 - 1200]

\* preset.distance, in tenths
getFirstPersonPreset(l) ==
  CASE l = 1 -> 35
    [] l = 2 -> 38
    [] l = 3 -> 40
    [] l = 4 -> 32
    [] l = 5 -> 38
    [] OTHER -> 35

\* holePosition - ballStartPos with y zeroed, before normalize(): a positive
\* multiple of goalDirection
goalDirection(l) ==
  LET dx == holePosition(l).x - ballStartPos(l).x
      dz == holePosition(l).z - ballStartPos(l).z
      m == Max(Abs(dx), Abs(dz))
  IN [x |-> dx \div m, z |-> dz \div m]

\* Variant: level 3 builds a hole on two of its layers
holeTriggersBuilt_twoOnLayers(l) ==
  IF l = 3 THEN 2 ELSE IF courseDefined(l) THEN 1 ELSE 0

\* Hole-trigger bodies the build adds to the world: each setupLevelN calls
\* createHole once and createHolePhysics adds one trigger body
holeTriggersBuilt(l) == IF courseDefined(l) THEN 1 ELSE 0

\* Ball bodies setupBall adds to the world
ballBodiesBuilt(l) == 1

\* createWoodenBarrier calls of the level: entries of movingBlocks
barriersBuilt(l) == IF l = 4 THEN 3 ELSE 0

\* The createWoodenBarrier calls of setupLevel4, in order: start position,
\* unit direction, speed (tenths of rad/s), range and width along x
barriers(l) ==
  IF l = 4
  THEN <<[startPos |-> [x |-> 0, y |-> 40, z |-> 200],
          direction |-> [x |-> 1, y |-> 0, z |-> 0],
          speed |-> 22, range |-> 1000, width |-> 600],
         [startPos |-> [x |-> 0 - 800, y |-> 40, z |-> 0 - 200],
          direction |-> [x |-> 1, y |-> 0, z |-> 0],
          speed |-> 25, range |-> 600, width |-> 400],
         [startPos |-> [x |-> 800, y |-> 40, z |-> 0 - 600],
          direction |-> [x |-> 1, y |-> 0, z |-> 0],
          speed |-> 23, range |-> 600, width |-> 400]>>
  ELSE <<>>

\* createWoodenBarrier puts the mesh and the body of each block at its start
createWoodenBarriers(l) ==
  [i \in 1..Len(barriers(l)) |->
     [mesh |-> barriers(l)[i].startPos, body |-> barriers(l)[i].startPos]]

\* setupPhysics: the contact materials it adds to the world, each as the names
\* of its two materials
setupPhysics ==
  <<{"ball", "ground"}, {"ball", "wall"}, {"ball", "bouncyWall"},
    {"ball", "movingBlock"}>>

\* createHolePhysics: its loop over the rim segments adds a contact material
\* in every iteration
RimSegments == 16
createHolePhysics == [i \in 1..RimSegments |-> {"ball", "rim"}]

\* The contact materials of the world after init(): setupPhysics, then
\* createHole once on a level with a course
contactMaterialsBuilt(l) ==
  setupPhysics \o (IF holeTriggersBuilt(l) > 0 THEN createHolePhysics ELSE <<>>)

\* createBackgroundTrees leaves trees in the scene for a level with a course
treesBuilt(l) == courseDefined(l)

-----------------------------------------------------------------------------
(* State *)

VARIABLES
  currentLevel,            \* this.currentLevel, fixed by the constructor
  ballPos,                 \* ballBody.position
  ballVel,                 \* ballBody.velocity
  ballAngVel,              \* ballBody.angularVelocity
  ballForce,               \* ballBody.force: applied since the last world.step
  ballVisible,             \* ball.visible
  ballInHole,
  holeCompletedTriggered,
  strokes,
  isAiming, aimStart, aimCurrent,
  isPanning, panStart,
  cameraAngleY,            \* quarter turns away from atan2(goalDirection)
  firstPersonDistance,     \* tenths
  ballBodies,              \* ball rigid bodies in the world
  holeBodies,              \* hole-trigger bodies in the world
  movingBlocks,            \* length of this.movingBlocks
  blockPositions,          \* per moving block: position of its mesh and body
  contactMaterials,        \* world.contactmaterials, as pairs of material names
  treesInScene,            \* this.trees is not empty
  rendererDisposed,        \* renderer.dispose() has been called
  gameInstanceRef,         \* Game.tsx: gameInstanceRef.current (0: null)
  pendingImports,          \* Game.tsx: levels of the import() promises pending
  engines,                 \* Game.tsx: the engines constructed so far
  lastEvent,               \* history: what the last handler did (see NoteHandler)
  frame,                   \* history: what the last animate() did
  completions,             \* history: onLevelComplete calls made by the last handler
  impulses,                \* history: impulses applied by the last handler
  callsThisAttempt,        \* history: onLevelComplete calls since the last reset
  shotsThisAttempt,        \* history: impulses applied since the last reset
  attractedThisAttempt     \* history: a frame since the last reset attracted

ballVars == <<ballPos, ballVel, ballAngVel, ballForce, ballVisible>>
holeVars == <<ballInHole, holeCompletedTriggered>>
aimVars == <<isAiming, aimStart, aimCurrent>>
cameraVars == <<isPanning, panStart, cameraAngleY, firstPersonDistance>>
worldVars == <<ballBodies, holeBodies, movingBlocks, blockPositions,
               contactMaterials, treesInScene, rendererDisposed>>
engineVars == <<currentLevel, ballVars, holeVars, strokes, aimVars, cameraVars,
                worldVars>>
pageVars == <<gameInstanceRef, pendingImports, engines>>
historyVars == <<lastEvent, frame, completions, impulses, callsThisAttempt,
                 shotsThisAttempt, attractedThisAttempt>>
vars == <<engineVars, pageVars, historyVars>>

\* Game.tsx always passes a completion callback to the constructor
onLevelCompleteProvided == TRUE

NoFrame == [reset |-> FALSE, pos |-> ZeroVec, wasInHole |-> FALSE,
            branch |-> "none", forced |-> FALSE, threw |-> FALSE,
            delta |-> 0, dt |-> 0, now |-> 0, steps |-> <<>>]

\* The page before initializeGame has run.
\* Specifications of a single engine leave the page out.
NoPage ==
  /\ gameInstanceRef = 0
  /\ pendingImports = <<>>
  /\ engines = <<>>

\* The engine right after new GameEngine(canvas, l, callback)
Constructed(l) ==
  /\ currentLevel = l
  /\ ballPos = ballStartPos(currentLevel)
  /\ ballVel = ZeroVec
  /\ ballAngVel = ZeroVec
  /\ ballForce = ZeroVec
  /\ ballVisible = TRUE
  /\ ballInHole = FALSE
  /\ holeCompletedTriggered = FALSE
  /\ strokes = 0
  /\ isAiming = FALSE
  /\ aimStart = [x |-> 0, y |-> 0]
  /\ aimCurrent = [x |-> 0, y |-> 0]
  /\ isPanning = FALSE
  /\ panStart = 0
  /\ cameraAngleY = 0
  /\ firstPersonDistance = getFirstPersonPreset(currentLevel)
  /\ ballBodies = ballBodiesBuilt(currentLevel)
  /\ holeBodies = holeTriggersBuilt(currentLevel)
  /\ movingBlocks = barriersBuilt(currentLevel)
  /\ blockPositions = createWoodenBarriers(currentLevel)
  /\ contactMaterials = contactMaterialsBuilt(currentLevel)
  /\ treesInScene = treesBuilt(currentLevel)
  /\ rendererDisposed = FALSE
  /\ lastEvent = "none"
  /\ frame = NoFrame
  /\ completions = <<>>
  /\ impulses = <<>>
  /\ callsThisAttempt = 0
  /\ shotsThisAttempt = 0
  /\ attractedThisAttempt = FALSE

Init == NoPage /\ \E l \in Levels : Constructed(l)

-----------------------------------------------------------------------------
(* Camera rig *)

\* (sin, cos) of cameraAngleY as a multiple of goalDirection: q quarter turns
\* away from atan2(goalDirection.x, goalDirection.z)
YawVector(l, q) ==
  LET g == goalDirection(l)
  IN CASE q = 0 -> [x |-> g.x, z |-> g.z]
       [] q = 1 -> [x |-> g.z, z |-> 0 - g.x]
       [] q = 2 -> [x |-> 0 - g.x, z |-> 0 - g.z]
       [] q = 3 -> [x |-> 0 - g.z, z |-> g.x]

\* Variant: cameraDirection that returns the horizontal direction as it is, zero included
cameraDirection_noNudge(l, q, d) ==
  LET g == goalDirection(l)
      yaw == YawVector(l, q)
  IN [x |-> 20 * g.x + d * yaw.x, z |-> 20 * g.z + d * yaw.z]

\* camera.getWorldDirection() with y zeroed, before normalize(), for a ball at
\* a finite position: the camera
\* sits at ball + (-sin*distance, height, -cos*distance) and looks at
\* ball + 2*goalDirection.  When the two coincide horizontally the camera looks
\* straight down and Matrix4.lookAt nudges its axis by 0.0001 along z, which
\* leaves the horizontal direction (0, -1).
cameraDirection(l, q, d) ==
  LET g == goalDirection(l)
      yaw == YawVector(l, q)
      h == [x |-> 20 * g.x + d * yaw.x, z |-> 20 * g.z + d * yaw.z]
  IN IF h.x = 0 /\ h.z = 0 THEN [x |-> 0, z |-> 0 - 100] ELSE h

MinDistance == 15
MaxDistance == 80

\* Variant: onMouseWheel without the clamp
zoom_unclamped(d, deltaY) == d + deltaY \div 20

\* Math.max(1.5, Math.min(8, firstPersonDistance + deltaY * 0.005))
zoom(d, deltaY) == Max(MinDistance, Min(MaxDistance, d + deltaY \div 20))

-----------------------------------------------------------------------------
(* Shot controller *)

\* aimStart.distanceTo(aimCurrent) squared, in units of 0.05^2
aimDistance2(from, to) ==
  (to.x - from.x) * (to.x - from.x) + (to.y - from.y) * (to.y - from.y)

\* Variant: dragAccepted with >= in place of >
dragAccepted_inclusive(from, to) == aimDistance2(from, to) >= 1

\* aimDistance > 0.05
dragAccepted(from, to) == aimDistance2(from, to) > 1

\* (2 * 100 * maxPower)^2
MaxPowerSq == 49000000

\* (2 * 100 * power)^2 for power = Math.min(aimDistance * maxPower * 1.5, maxPower):
\* (2 * 100 * 52.5 * 0.05)^2 = 275625 per unit of squared drag
powerSq(n) == Min(275625 * n, MaxPowerSq)

\* worldDirection before its normalize(): rightVector * direction.x +
\* cameraDirection * (-direction.z), for direction = (-aim.x, 0, aim.y) and
\* rightVector = cameraDirection x (0,1,0)
worldDirection(cam, from, to) ==
  LET ax == to.x - from.x
      ay == to.y - from.y
  IN [x |-> cam.z * ax - cam.x * ay, z |-> 0 - cam.x * ax - cam.z * ay]

\* The impulse shoot() hands to applyImpulse: worldDirection.normalize() times
\* power, with y = 0.  dir is the direction before normalize() (normalize
\* leaves a zero vector zero); x and z are the components in hundredths.
shotImpulse(cam, from, to) ==
  LET w == worldDirection(cam, from, to)
      p2 == powerSq(aimDistance2(from, to))
      pw == ISqrt(p2) \div 2
      len2 == ISqrt(4 * (w.x * w.x + w.z * w.z))
  IN [dir |-> w, powerSq |-> p2, y |-> 0,
      x |-> IF len2 = 0 THEN 0 ELSE (2 * w.x * pw) \div len2,
      z |-> IF len2 = 0 THEN 0 ELSE (2 * w.z * pw) \div len2]

\* ballBody.applyImpulse(impulse): velocity += impulse / mass, mass = 1
applyImpulse(v, imp) ==
  Vec3(FAdd(v.x, imp.x), FAdd(v.y, imp.y), FAdd(v.z, imp.z))

\* shoot(): the impulses applied (none when the drag is too short)
shoot(l, q, d, from, to) ==
  IF dragAccepted(from, to)
  THEN <<shotImpulse(cameraDirection(l, q, d), from, to)>>
  ELSE <<>>

\* Variant: strokesAfter without the increment
strokesAfter_uncounted(n, shot) == n

\* this.strokes++ inside the accepted branch of shoot()
strokesAfter(n, shot) == n + Len(shot)

\* Variant: ballStationary with a threshold of 5.0
ballStationary_loose(v) == Lt(Length2(v), 250000)

\* ballBody.velocity.length() < 0.5
ballStationary(v) == Lt(Length2(v), 2500)

-----------------------------------------------------------------------------
(* Validity guard of the frame loop *)

\* isNaN(position.x) || isNaN(position.y) || isNaN(position.z)
positionCorrupted(p) == IsNaN(p.x) \/ IsNaN(p.y) \/ IsNaN(p.z)

\* ballPosition.y < -10
fellThroughFloor(p) == Lt(p.y, 0 - 1000)

\* Squared horizontal distance of p from (cx, cz); Infinity for an infinite
\* coordinate, NaN for a NaN one
HDist2(p, cx, cz) ==
  IF IsNaN(p.x) \/ IsNaN(p.z) THEN NaN
  ELSE IF ~IsFinite(p.x) \/ ~IsFinite(p.z) THEN PosInf
  ELSE (p.x - cx) * (p.x - cx) + (p.z - cz) * (p.z - cz)

\* Variant: outsideBox without the z > bz test
outsideBox_nearSideOnly(p, bx, bz) ==
  \/ Gt(p.x, bx) \/ Lt(p.x, 0 - bx)
  \/ Lt(p.z, 0 - bz)
  \/ Lt(p.y, 0 - 500)

\* |x| > bx or |z| > bz or y < -5
outsideBox(p, bx, bz) ==
  \/ Gt(p.x, bx) \/ Lt(p.x, 0 - bx)
  \/ Gt(p.z, bz) \/ Lt(p.z, 0 - bz)
  \/ Lt(p.y, 0 - 500)

\* sqrt(x*x + z*z) > 19 or y < -5
outsideCircle(p) == Gt(HDist2(p, 0, 0), 1900 * 1900) \/ Lt(p.y, 0 - 500)

outOfBounds(l, p) ==
  CASE l = 1 -> outsideBox(p, 1050, 1550)
    [] l = 2 -> outsideCircle(p)
    [] l = 3 -> outsideBox(p, 1550, 2050)
    [] l = 4 -> outsideBox(p, 1250, 1750)
    [] l = 5 -> outsideCircle(p)
    [] OTHER -> FALSE

\* Variant: resetBall that restores the field initialiser (0, 0.5, 8) instead of the level's start
resetBall_fieldDefault(l) ==
  [pos |-> Vec3(0, 50, 800), vel |-> ZeroVec, angVel |-> ZeroVec,
   visible |-> TRUE, inHole |-> FALSE, triggered |-> FALSE, strokes |-> 0]

\* The fields resetBall() assigns
resetBall(l) ==
  [pos |-> ballStartPos(l), vel |-> ZeroVec, angVel |-> ZeroVec,
   visible |-> TRUE, inHole |-> FALSE, triggered |-> FALSE, strokes |-> 0]

-----------------------------------------------------------------------------
(* Hole capture *)

\* Variant: onHoleCompleted with the latch test inverted
onHoleCompleted_invertedLatch(inHole, triggered) ==
  onLevelCompleteProvided /\ inHole /\ triggered

\* this.onLevelComplete && this.ballInHole && !this.holeCompletedTriggered
onHoleCompleted(inHole, triggered) ==
  onLevelCompleteProvided /\ inHole /\ ~triggered

\* Variant: completionCall with its arguments in the wrong order
completionCall_swapped(l, n) == [level |-> n, strokes |-> l]

\* this.onLevelComplete(this.currentLevel, this.strokes)
completionCall(l, n) == [level |-> l, strokes |-> n]

isNearHole(d2) == Lt(d2, 64 * 64)
isAtGroundLevel(y) == Le(y, 35) /\ Gt(y, 0 - 5)

\* Which branch of the if / else-if chain of the !ballInHole block is taken
holeBranch(d2, y, v) ==
  IF isNearHole(d2) /\ isAtGroundLevel(y) /\ Lt(d2, 54 * 54) THEN "capture"
  ELSE IF isNearHole(d2) /\ isAtGroundLevel(y) /\ Lt(d2, 74 * 74)
          /\ Lt(Length2(v), 300 * 300) THEN "attract"
  ELSE IF Gt(d2, 49 * 49) /\ Lt(d2, 62 * 62) /\ isAtGroundLevel(y) THEN "rim"
  ELSE "none"

\* The block guarded by if (!this.ballInHole); b holds the fields a frame may
\* change, n is the stroke count
holeApproach(l, p, b, n) ==
  LET h == holePosition(l)
      d2 == HDist2(p, h.x, h.z)
      dist == ISqrt(d2)
      branch == holeBranch(d2, p.y, b.vel)
      fires == onHoleCompleted(TRUE, b.triggered)
  IN CASE branch = "capture" ->
            [b EXCEPT !.inHole = TRUE,
                      !.triggered = b.triggered \/ fires,
                      !.calls = IF fires THEN <<completionCall(l, n)>>
                                ELSE <<>>,
                      !.vel = Vec3(FScale(b.vel.x, 5, 100),
                                   FMin(b.vel.y, 0 - 200),
                                   FScale(b.vel.z, 5, 100)),
                      !.angVel = Vec3(FScale(b.angVel.x, 1, 10),
                                      FScale(b.angVel.y, 1, 10),
                                      FScale(b.angVel.z, 1, 10)),
                      !.branch = branch]
       [] branch = "attract" ->
            [b EXCEPT !.force =
                        Vec3(FAdd(b.force.x,
                                  (80 * (h.x - p.x) * (74 - dist)) \div (74 * dist)),
                             b.force.y,
                             FAdd(b.force.z,
                                  (80 * (h.z - p.z) * (74 - dist)) \div (74 * dist))),
                      !.branch = branch]
       [] branch = "rim" ->
            [b EXCEPT !.vel = Vec3(FAdd(b.vel.x, (50 * (p.x - h.x)) \div dist),
                                   FAdd(b.vel.y, 30),
                                   FAdd(b.vel.z, (50 * (p.z - h.z)) \div dist)),
                      !.branch = branch]
       [] OTHER -> b

\* Variant: the in-hole block lets go of a ball that is above the ground band
holeFall_releasesAbove(l, p, b, spiral) == [b EXCEPT !.inHole = Le(p.y, 35)]

\* The block guarded by if (this.ballInHole); spiral is (cos, sin) of
\* Date.now() * 0.01

holeFall(l, p, b, spiral) ==
  LET h == holePosition(l)
      d2 == HDist2(p, h.x, h.z)
      dist == IF IsFinite(d2) THEN ISqrt(d2) ELSE NaN
      ay == FAbs(p.y)
      spiralForce == FScale(FAdd(80, p.y), 15, 80)
      pullX == FAdd(FScale(FSub(h.x, p.x), 12, 1), FScale(spiralForce, spiral.c, 1))
      pullZ == FAdd(FScale(FSub(h.z, p.z), 12, 1), FScale(spiralForce, spiral.s, 1))
      downward == FSub(0 - 2500, FScale(ay, 125, 2))
      friction == FSub(7680, FScale(ay, 10, 1))
      spin == FSub(7360, FScale(ay, 5, 1))
      pulled == IF Gt(d2, 3 * 3)
                THEN Vec3(FAdd(b.force.x, pullX), b.force.y, FAdd(b.force.z, pullZ))
                ELSE b.force
      slowed == Vec3(FScale(b.vel.x, friction, 8000), b.vel.y,
                     FScale(b.vel.z, friction, 8000))
      bounced == IF Gt(d2, 45 * 45)
                 THEN Vec3(FSub(slowed.x, FScale(FSub(p.x, h.x), 20, dist)),
                           slowed.y,
                           FSub(slowed.z, FScale(FSub(p.z, h.z), 20, dist)))
                 ELSE slowed
      falling == IF Gt(p.y, 0 - 80)
                 THEN [b EXCEPT !.force = Vec3(pulled.x, FAdd(pulled.y, downward),
                                               pulled.z),
                                !.vel = bounced,
                                !.angVel = Vec3(FScale(b.angVel.x, spin, 8000),
                                                FScale(b.angVel.y, spin, 8000),
                                                FScale(b.angVel.z, spin, 8000)),
                                !.forced = TRUE]
                 ELSE b
  IN [falling EXCEPT !.visible = IF Lt(p.y, 0 - 60) THEN FALSE ELSE b.visible]

\* Variant: the step is taken with the elapsed time as it is
clampDelta_unclamped(delta) == delta

\* Math.min(deltaTime, 1/30), in units of 1/300 s
clampDelta(delta) == Min(delta, 10)

\* The statements of animate() after world.step that every frame with a
\* finite ball position runs, in order: the NaN check, the copy of the body's
\* position to the mesh, the floor check and the bounds check
ValidityChecks == <<"nanCheck", "visualSync", "floorCheck", "boundsCheck">>

\* Variant: animate() whose capture evaluation is not guarded by !ballInHole
animate_unguardedCapture(l, p, v, w, spiral, inHole, triggered, visible, n, holes) ==
  LET b0 == [reset |-> FALSE, pos |-> p, vel |-> v, angVel |-> w,
             force |-> ZeroVec, visible |-> visible, inHole |-> inHole,
             triggered |-> triggered, strokes |-> n, calls |-> <<>>,
             branch |-> "none", forced |-> FALSE, threw |-> FALSE,
             steps |-> ValidityChecks]
      back == [reset |-> TRUE, force |-> ZeroVec, calls |-> <<>>,
               branch |-> "none", forced |-> FALSE, threw |-> FALSE,
               steps |-> ValidityChecks]
              @@ resetBall(l)
  IN IF positionCorrupted(p) THEN [back EXCEPT !.steps = <<"nanCheck">>]
     ELSE IF fellThroughFloor(p) /\ ~inHole THEN back
     ELSE IF outOfBounds(l, p) /\ ~inHole THEN back
     ELSE IF holes = 0 THEN [b0 EXCEPT !.threw = TRUE]
     ELSE LET b1 == holeApproach(l, p, b0, n)
              b2 == IF b1.inHole THEN holeFall(l, p, b1, spiral) ELSE b1
          IN [b2 EXCEPT !.steps = @ \o <<"holeCapture", "camera", "render">>]

\* animate() after world.step has left the ball at p with velocity v and
\* angular velocity w and has cleared the accumulated force; holes is the
\* number of hole-trigger bodies.  Without one, this.holeBody is undefined and
\* reading holeBody.position throws: the frame ends there.
animate(l, p, v, w, spiral, inHole, triggered, visible, n, holes) ==
  LET b0 == [reset |-> FALSE, pos |-> p, vel |-> v, angVel |-> w,
             force |-> ZeroVec, visible |-> visible, inHole |-> inHole,
             triggered |-> triggered, strokes |-> n, calls |-> <<>>,
             branch |-> "none", forced |-> FALSE, threw |-> FALSE,
             steps |-> ValidityChecks]
      back == [reset |-> TRUE, force |-> ZeroVec, calls |-> <<>>,
               branch |-> "none", forced |-> FALSE, threw |-> FALSE,
               steps |-> ValidityChecks]
              @@ resetBall(l)
  IN IF positionCorrupted(p) THEN [back EXCEPT !.steps = <<"nanCheck">>]
     ELSE IF fellThroughFloor(p) /\ ~inHole THEN back
     ELSE IF outOfBounds(l, p) /\ ~inHole THEN back
     ELSE IF holes = 0 THEN [b0 EXCEPT !.threw = TRUE]
     ELSE LET b1 == IF ~inHole THEN holeApproach(l, p, b0, n) ELSE b0
              b2 == IF b1.inHole THEN holeFall(l, p, b1, spiral) ELSE b1
          IN [b2 EXCEPT !.steps = @ \o <<"holeCapture", "camera", "render">>]

-----------------------------------------------------------------------------
(* Moving blocks (level 4) *)

\* Math.sin of an angle in hundredths of a radian, in thousandths: the angle
\* is reduced to a half period and the half wave is
\* 16 x (pi - x) / (5 pi^2 - 4 x (pi - x))
HalfTurn == 314
halfWave(x) == (16000 * x * (HalfTurn - x)) \div
               (5 * HalfTurn * HalfTurn - 4 * x * (HalfTurn - x))
sin(a) ==
  LET x == a % (2 * HalfTurn)
  IN IF x <= HalfTurn THEN halfWave(x) ELSE 0 - halfWave(x - HalfTurn)

\* time * block.speed + index * Math.PI / 3, in hundredths of a radian; index
\* counts from 0
blockPhase(b, index, now) == (now * b.speed) \div 10 + (index * HalfTurn) \div 3

\* Math.sin(phase) * block.range
blockOffset(b, index, now) == (sin(blockPhase(b, index, now)) * b.range) \div 1000

\* startPos + direction * offset
blockTarget(b, index, now) ==
  [x |-> b.startPos.x + b.direction.x * blockOffset(b, index, now),
   y |-> b.startPos.y + b.direction.y * blockOffset(b, index, now),
   z |-> b.startPos.z + b.direction.z * blockOffset(b, index, now)]

\* Variant: updateMovingBlocks() that moves the meshes and leaves the bodies
updateMovingBlocks_meshOnly(params, blocks, now) ==
  [i \in 1..Len(blocks) |->
     [mesh |-> blockTarget(params[i], i - 1, now), body |-> blocks[i].body]]

\* updateMovingBlocks(): every block of this.movingBlocks gets its mesh and
\* its body placed at the same new position
updateMovingBlocks(params, blocks, now) ==
  [i \in 1..Len(blocks) |->
     [mesh |-> blockTarget(params[i], i - 1, now),
      body |-> blockTarget(params[i], i - 1, now)]]

\* Variant: a frame that steps the world before it moves the blocks
frameSteps_stepFirst(l, after) ==
  <<"worldStep">> \o (IF l = 4 THEN <<"updateMovingBlocks">> ELSE <<>>) \o after

\* The statements a frame of animate() runs, in order: the block update on
\* level 4, world.step, and those after it
frameSteps(l, after) ==
  (IF l = 4 THEN <<"updateMovingBlocks">> ELSE <<>>) \o <<"worldStep">> \o after

-----------------------------------------------------------------------------
(* Inputs *)

\* Mouse positions: normalised canvas coordinates (units of 0.05) and the
\* clientX the pan handler reads (units of a quarter turn, 50*pi pixels)
Point(x, y, cx) == [x |-> x, y |-> y, clientX |-> cx]
AimPoints == {Point(0, 0, 0), Point(0, 1, 0), Point(5, 0 - 12, 0)}

\* event.button: left, middle;  event.buttons: none, left
Buttons == {0, 1}
ButtonMasks == {0, 1}

\* event.deltaY in pixels (0: a horizontal scroll)
WheelDeltas == {0}

\* clock.getDelta() in units of 1/300 s: a frame at 60 Hz
FrameDeltas == {5}

\* Date.now() in hundredths of a second, from the first frame on
Clock == {0}

HolePoint(l, dx, y) == Vec3(holePosition(l).x + dx, y, holePosition(l).z)

\* A point past the level's boundary, at resting height
OutsidePoint(l) ==
  CASE l = 1 -> Vec3(0, 30, 1600)
    [] l = 2 -> Vec3(0, 30, 1950)
    [] l = 3 -> Vec3(1600, 30, 0)
    [] l = 4 -> Vec3(0, 30, 1800)
    [] l = 5 -> Vec3(1950, 30, 0)
    [] OTHER -> Vec3(0, 30, 1600)

Rolling == Vec3(0, 0, 0 - 100)
Fast == Vec3(300, 0, 0 - 400)
Falling == Vec3(0, 0 - 300, 40)

\* Date.now() * 0.01 as a spiral angle: its (cos, sin)
SpiralAngles == {[c |-> 1, s |-> 0], [c |-> 0, s |-> 0 - 1]}

Outcome(p, v, spiral) == [pos |-> p, vel |-> v, spiral |-> spiral]

\* Finite states world.step may leave the ball in
FiniteOutcomes(l) ==
  {Outcome(ballStartPos(l), ZeroVec, [c |-> 1, s |-> 0]),
   Outcome(ballStartPos(l), Rolling, [c |-> 1, s |-> 0]),
   Outcome(OutsidePoint(l), Fast, [c |-> 1, s |-> 0]),
   Outcome(HolePoint(l, 60, 30), Rolling, [c |-> 1, s |-> 0]),
   Outcome(HolePoint(l, 60, 30), Fast, [c |-> 1, s |-> 0]),
   Outcome(HolePoint(l, 0, 180), ZeroVec, [c |-> 1, s |-> 0]),
   Outcome(HolePoint(l, 0, 0 - 90), Falling, [c |-> 1, s |-> 0]),
   Outcome(HolePoint(l, 0, 0 - 600), Falling, [c |-> 1, s |-> 0]),
   Outcome(HolePoint(l, 0, 0 - 1100), Falling, [c |-> 1, s |-> 0])}
  \cup {Outcome(HolePoint(l, 0, 30), ZeroVec, a) : a \in SpiralAngles}
  \cup {Outcome(HolePoint(l, 50, 30), Fast, a) : a \in SpiralAngles}
  \cup {Outcome(HolePoint(l, 0, 0 - 70), Falling, a) : a \in SpiralAngles}

\* Non-finite positions a diverging step may leave
NonFiniteOutcomes(l) ==
  {Outcome(Vec3(NaN, NaN, NaN), ZeroVec, [c |-> 1, s |-> 0]),
   Outcome(HolePoint(l, 0, PosInf), ZeroVec, [c |-> 1, s |-> 0]),
   Outcome(HolePoint(l, 0, NegInf), Falling, [c |-> 1, s |-> 0]),
   Outcome(Vec3(PosInf, 30, holePosition(l).z), Fast, [c |-> 1, s |-> 0])}

\* Angular velocity of a ball of radius 0.3 rolling with velocity v
RollingSpin(v) == Vec3((10 * v.z) \div 3, 0, (0 - 10 * v.x) \div 3)

\* What world.step may leave: any of the listed states, and a non-finite
\* position when it integrates a non-finite velocity or force
StepOutcomes(l, v, f) ==
  IF VecFinite(v) /\ VecFinite(f)
  THEN FiniteOutcomes(l) \cup NonFiniteOutcomes(l)
  ELSE NonFiniteOutcomes(l)

-----------------------------------------------------------------------------
(* Handlers *)

Count(n, k) == Min(n + k, MaxStrokes + 1)

\* History of a handler: event is "animate" (a frame), "resetBall" (the public
\* reset), "aimBegun" / "aimRefused" (a left press, accepted or not),
\* "shotFired" / "shotCancelled" (a left release that ended aiming, with or
\* without an impulse), "disposed" / "disposedAgain" (the first and any later
\* dispose()) or "none" (any other event)
NoteHandler(event, what, calls, imps, wasReset) ==
  /\ lastEvent' = event
  /\ frame' = what
  /\ completions' = calls
  /\ impulses' = imps
  /\ callsThisAttempt' = Count(IF wasReset THEN 0 ELSE callsThisAttempt, Len(calls))
  /\ shotsThisAttempt' = Count(IF wasReset THEN 0 ELSE shotsThisAttempt, Len(imps))
  /\ attractedThisAttempt' =
       (what.branch = "attract" \/ (~wasReset /\ attractedThisAttempt))

OnMouseDown(pt, button) ==
  /\ IF button = 0
     THEN IF ballStationary(ballVel)
          THEN /\ isAiming' = TRUE
               /\ aimStart' = [x |-> pt.x, y |-> pt.y]
               /\ aimCurrent' = [x |-> pt.x, y |-> pt.y]
               /\ UNCHANGED <<isPanning, panStart>>
          ELSE UNCHANGED <<aimVars, isPanning, panStart>>
     ELSE IF button = 2
          THEN /\ isPanning' = TRUE
               /\ panStart' = pt.clientX
               /\ UNCHANGED aimVars
          ELSE UNCHANGED <<aimVars, isPanning, panStart>>
  /\ UNCHANGED <<currentLevel, ballVars, holeVars, strokes, cameraAngleY,
                 firstPersonDistance>>
  /\ UNCHANGED <<worldVars, pageVars>>
  /\ NoteHandler(IF button # 0 THEN "none"
                 ELSE IF ballStationary(ballVel) THEN "aimBegun" ELSE "aimRefused",
                 NoFrame, <<>>, <<>>, FALSE)

OnMouseMove(pt, mask) ==
  /\ IF isAiming
     THEN /\ aimCurrent' = [x |-> pt.x, y |-> pt.y]
          /\ UNCHANGED <<panStart, cameraAngleY>>
     ELSE IF isPanning /\ mask = 2
          THEN /\ cameraAngleY' = (cameraAngleY - (pt.clientX - panStart)) % 4
               /\ panStart' = pt.clientX
               /\ UNCHANGED aimCurrent
          ELSE UNCHANGED <<aimCurrent, panStart, cameraAngleY>>
  /\ UNCHANGED <<currentLevel, ballVars, holeVars, strokes, isAiming, aimStart,
                 isPanning, firstPersonDistance>>
  /\ UNCHANGED <<worldVars, pageVars>>
  /\ NoteHandler("none", NoFrame, <<>>, <<>>, FALSE)

OnMouseUp(button) ==
  \E shot \in {IF button = 0 /\ isAiming
                THEN shoot(currentLevel, cameraAngleY, firstPersonDistance,
                           aimStart, aimCurrent)
                ELSE <<>>} :
     /\ shot # <<>> => strokes < MaxStrokes
     /\ IF button = 0 /\ isAiming
        THEN /\ isAiming' = FALSE
             /\ strokes' = strokesAfter(strokes, shot)
             /\ ballVel' = IF shot = <<>> THEN ballVel
                           ELSE applyImpulse(ballVel, shot[1])
             /\ UNCHANGED isPanning
        ELSE IF button = 2
             THEN /\ isPanning' = FALSE
                  /\ UNCHANGED <<isAiming, strokes, ballVel>>
             ELSE UNCHANGED <<isAiming, strokes, ballVel, isPanning>>
     /\ UNCHANGED <<currentLevel, ballPos, ballAngVel, ballForce, ballVisible,
                    holeVars, aimStart, aimCurrent, panStart, cameraAngleY,
                    firstPersonDistance>>
     /\ UNCHANGED <<worldVars, pageVars>>
     /\ NoteHandler(IF button # 0 \/ ~isAiming THEN "none"
                    ELSE IF shot = <<>> THEN "shotCancelled" ELSE "shotFired",
                    NoFrame, <<>>, shot, FALSE)

OnMouseWheel(deltaY) ==
  /\ firstPersonDistance' = zoom(firstPersonDistance, deltaY)
  /\ UNCHANGED <<currentLevel, ballVars, holeVars, strokes, aimVars, isPanning,
                 panStart, cameraAngleY>>
  /\ UNCHANGED <<worldVars, pageVars>>
  /\ NoteHandler("none", NoFrame, <<>>, <<>>, FALSE)

\* Game.resetLevel: the engine's public resetBall()
ResetLevel ==
  \E r \in {resetBall(currentLevel)} :
     /\ ballPos' = r.pos
     /\ ballVel' = r.vel
     /\ ballAngVel' = r.angVel
     /\ ballVisible' = r.visible
     /\ ballInHole' = r.inHole
     /\ holeCompletedTriggered' = r.triggered
     /\ strokes' = r.strokes
     /\ UNCHANGED <<currentLevel, ballForce, aimVars, cameraVars>>
     /\ UNCHANGED <<worldVars, pageVars>>
     /\ NoteHandler("resetBall", NoFrame, <<>>, <<>>, TRUE)

\* One animation frame, delta after the previous one (clock.getDelta()), at
\* time now (Date.now(), in hundredths of a second)
Animate(out, delta, now) ==
  \E r \in {animate(currentLevel, out.pos, out.vel, RollingSpin(out.vel), out.spiral,
                   ballInHole, holeCompletedTriggered, ballVisible, strokes,
                   holeBodies)} :
     /\ blockPositions' =
          IF currentLevel = 4
          THEN updateMovingBlocks(barriers(currentLevel), blockPositions, now)
          ELSE blockPositions
     /\ ballPos' = r.pos
     /\ ballVel' = r.vel
     /\ ballAngVel' = r.angVel
     /\ ballForce' = r.force
     /\ ballVisible' = r.visible
     /\ ballInHole' = r.inHole
     /\ holeCompletedTriggered' = r.triggered
     /\ strokes' = r.strokes
     /\ UNCHANGED <<currentLevel, aimVars, cameraVars>>
     /\ UNCHANGED <<ballBodies, holeBodies, movingBlocks, contactMaterials,
                    treesInScene, rendererDisposed, pageVars>>
     /\ NoteHandler("animate",
                    [reset |-> r.reset, pos |-> out.pos, wasInHole |-> ballInHole,
                     branch |-> r.branch, forced |-> r.forced, threw |-> r.threw,
                     delta |-> delta, dt |-> clampDelta(delta), now |-> now,
                     steps |-> frameSteps(currentLevel, r.steps)],
                    r.calls, <<>>, r.reset)

\* Variant: dispose() that releases only the last moving block
dispose_lastBlockOnly(blocks) ==
  [rendererDisposed |-> TRUE, movingBlocks |-> Max(blocks - 1, 0),
   treesInScene |-> FALSE]

\* The fields dispose() assigns, for a movingBlocks list of the given length
dispose(blocks) ==
  [rendererDisposed |-> TRUE, movingBlocks |-> 0, treesInScene |-> FALSE]

\* dispose(): it cancels no animation frame and removes no listener, so it is
\* followed by whatever handler comes next
Dispose ==
  \E r \in {dispose(movingBlocks)} :
     /\ rendererDisposed' = r.rendererDisposed
     /\ movingBlocks' = r.movingBlocks
     /\ blockPositions' = SubSeq(blockPositions, 1, r.movingBlocks)
     /\ treesInScene' = r.treesInScene
     /\ UNCHANGED <<currentLevel, ballVars, holeVars, strokes, aimVars, cameraVars,
                    ballBodies, holeBodies, contactMaterials, pageVars>>
     /\ NoteHandler(IF rendererDisposed THEN "disposedAgain" ELSE "disposed",
                    NoFrame, <<>>, <<>>, FALSE)

\* The handlers over given inputs: mouse positions, buttons, wheel deltas and
\* the outcomes of world.step
Handlers(points, buttons, masks, deltas, outcomes, times, clock) ==
  \/ \E pt \in points, button \in buttons : OnMouseDown(pt, button)
  \/ \E pt \in points, mask \in masks : OnMouseMove(pt, mask)
  \/ \E button \in buttons : OnMouseUp(button)
  \/ \E deltaY \in deltas : OnMouseWheel(deltaY)
  \/ ResetLevel
  \/ \E out \in outcomes, delta \in times, now \in clock :
        Animate(out, delta, now)

Next ==
  Handlers(AimPoints, Buttons, ButtonMasks, WheelDeltas,
           StepOutcomes(currentLevel, ballVel, ballForce), FrameDeltas, Clock)

Spec == Init /\ [][Next]_vars

-----------------------------------------------------------------------------
(* The shot under every camera state: levels 1 and 3 (goal straight ahead and
   on a diagonal), the mouse also panning by quarter turns, the wheel zooming
   in to the lower clamp and out to the upper, and the ball left at its start
   by world.step, at rest or rolling (a finite position, as cameraDirection
   takes it to be) *)

CameraLevels == {1, 3}
CameraPoints == {Point(0, 0, 0), Point(5, 0 - 12, 1)}
\* event.button: left, right;  event.buttons: none, right
CameraButtons == {0, 2}
CameraButtonMasks == {0, 2}
CameraWheelDeltas == {0 - 600, 2000}

RestOutcomes(l, v, f) ==
  {Outcome(ballStartPos(l), ZeroVec, [c |-> 1, s |-> 0]),
   Outcome(ballStartPos(l), Rolling, [c |-> 1, s |-> 0])}

InitCamera == NoPage /\ \E l \in CameraLevels : Constructed(l)

NextCamera ==
  Handlers(CameraPoints, CameraButtons, CameraButtonMasks, CameraWheelDeltas,
           RestOutcomes(currentLevel, ballVel, ballForce), FrameDeltas, Clock)

SpecCamera == InitCamera /\ [][NextCamera]_vars

-----------------------------------------------------------------------------
(* The engine's lifetime: levels 1 and 4 (without and with moving blocks),
   frames after any elapsed time, and dispose() called any number of times
   while the page's events and animation frames keep arriving *)

LifecycleLevels == {1, 4}
LifecyclePoints == {Point(0, 0, 0), Point(5, 0 - 12, 0)}

\* clock.getDelta() in units of 1/300 s: 60 Hz, exactly 1/30 s, just above
\* it, and a one-second stall
ClockDeltas == {5, 10, 11, 300}

LifecycleOutcomes(l, v, f) ==
  {Outcome(ballStartPos(l), ZeroVec, [c |-> 1, s |-> 0]),
   Outcome(HolePoint(l, 0, 30), ZeroVec, [c |-> 1, s |-> 0]),
   Outcome(HolePoint(l, 0, 0 - 70), Falling, [c |-> 1, s |-> 0])}

InitLifecycle == NoPage /\ \E l \in LifecycleLevels : Constructed(l)

NextLifecycle ==
  \/ Handlers(LifecyclePoints, Buttons, ButtonMasks, WheelDeltas,
              LifecycleOutcomes(currentLevel, ballVel, ballForce), ClockDeltas,
              Clock)
  \/ Dispose

SpecLifecycle == InitLifecycle /\ [][NextLifecycle]_vars

-----------------------------------------------------------------------------
(* The page (Game.tsx): initializeGame called for the first load, a replay
   or a level change, the effect's cleanup, and the import() promises
   resolving later.  Each engine is kept as its level and whether dispose()
   has been called on it; the fields of the engine itself play no part and
   stay as constructed. *)

MaxEngines == 3
PageLevels == {1, 2}

\* gameInstanceRef.current.dispose(), when the ref holds an engine
disposeCurrent(ref, es) ==
  IF ref # 0 THEN [es EXCEPT ![ref].disposed = TRUE] ELSE es

\* initializeGame(level): dispose the engine the ref holds, then start the
\* import; the engine is constructed when the promise resolves
InitializeGame(level) ==
  /\ Len(engines) + Len(pendingImports) < MaxEngines
  /\ engines' = disposeCurrent(gameInstanceRef, engines)
  /\ pendingImports' = Append(pendingImports, level)
  /\ UNCHANGED <<gameInstanceRef, engineVars, historyVars>>

\* import(...).then(...): construct the engine, store it in the ref, start it
ImportResolved ==
  /\ pendingImports # <<>>
  /\ engines' = Append(engines, [level |-> Head(pendingImports),
                                 disposed |-> FALSE])
  /\ gameInstanceRef' = Len(engines) + 1
  /\ pendingImports' = Tail(pendingImports)
  /\ UNCHANGED <<engineVars, historyVars>>

\* The cleanup of the effect (level change or unmount)
CleanupEffect ==
  /\ engines' = disposeCurrent(gameInstanceRef, engines)
  /\ UNCHANGED <<gameInstanceRef, pendingImports, engineVars, historyVars>>

InitPage == NoPage /\ Constructed(1)

NextPage ==
  \/ \E level \in PageLevels : InitializeGame(level)
  \/ ImportResolved
  \/ CleanupEffect

SpecPage == InitPage /\ [][NextPage]_vars

-----------------------------------------------------------------------------
(* The engine constructed with any level id the page may pass (the level
   query parameter, or the id after the last level): level 5, which has a
   course, and 6, which has none, so that no ground and no hole are built and
   the ball falls from the default start *)

LevelIds == {5, 6}

GroundlessOutcomes(l, v, f) ==
  {Outcome(ballStartPos(l), ZeroVec, [c |-> 1, s |-> 0]),
   Outcome(ballStartPos(l), Falling, [c |-> 1, s |-> 0]),
   Outcome(Vec3(ballStartPos(l).x, 0 - 1100, ballStartPos(l).z), Falling,
           [c |-> 1, s |-> 0])}

InitAnyLevel == NoPage /\ \E l \in LevelIds : Constructed(l)

NextAnyLevel ==
  Handlers(AimPoints, Buttons, ButtonMasks, WheelDeltas,
           GroundlessOutcomes(currentLevel, ballVel, ballForce), FrameDeltas, Clock)

SpecAnyLevel == InitAnyLevel /\ [][NextAnyLevel]_vars

-----------------------------------------------------------------------------
(* The animation loop on level 1, whose ground is one solid static box with
   its top face at y = 0 under the whole course, the hole included (the hole
   is a trigger body and a dark disc; nothing is cut out of the ground).
   world.step keeps the ball, a sphere of radius 0.3, on or above that face.
   animate() requests its next frame first thing, so frames keep coming. *)

BallRadius == 30
GroundLevels == {1}
GroundPoints == {Point(0, 0, 0), Point(5, 0 - 12, 0)}

\* Top face of the ground box of level 1: centre y = -0.05, half height 0.05
groundTop(l) == (0 - 5) + 5

\* The sphere does not reach below the top face of the ground
restsOnGround(l, p) == Le(groundTop(l) + BallRadius, p.y)

GroundedOutcomes(l, v, f) ==
  {out \in FiniteOutcomes(l) : restsOnGround(l, out.pos)}

InitGround == NoPage /\ \E l \in GroundLevels : Constructed(l)

NextGround ==
  Handlers(GroundPoints, Buttons, ButtonMasks, WheelDeltas,
           GroundedOutcomes(currentLevel, ballVel, ballForce), FrameDeltas, Clock)

\* requestAnimationFrame(animate): a frame is always pending
FramesKeepComing ==
  WF_vars(\E out \in GroundedOutcomes(currentLevel, ballVel, ballForce),
             delta \in FrameDeltas, now \in Clock : Animate(out, delta, now))

SpecGround == InitGround /\ [][NextGround]_vars /\ FramesKeepComing

-----------------------------------------------------------------------------
(* The hazard level: level 4 with its three moving barriers, frames arriving
   at different times of the barriers' periods (barrier 0 is at its start at
   0 and 1.43 s, near its right end at 0.71 s and near its left end at
   2.14 s), the ball left at its start by world.step *)

HazardLevels == {4}
HazardPoints == {Point(0, 0, 0), Point(5, 0 - 12, 0)}
HazardClock == {0, 71, 143, 214}

InitHazard == NoPage /\ \E l \in HazardLevels : Constructed(l)

NextHazard ==
  \/ Handlers(HazardPoints, Buttons, ButtonMasks, WheelDeltas,
              RestOutcomes(currentLevel, ballVel, ballForce), FrameDeltas,
              HazardClock)
  \/ Dispose

SpecHazard == InitHazard /\ [][NextHazard]_vars

-----------------------------------------------------------------------------
(* The ball at rest on the playing surface.  The surface of a level is the
   top faces of its static ground bodies: one box on levels 1, 2 and 4, a disc
   on level 5, and on level 3 the three layers, the two small platforms and
   the ground far below.  world.step leaves the ball where it rests: at its
   start, over the hole's horizontal position, near a corner of the walls or
   on a platform. *)

Slab(cx, cz, hx, hz, top) == [cx |-> cx, cz |-> cz, hx |-> hx, hz |-> hz, top |-> top]

\* Static boxes of the level: centre, half extents and height of the top face
platforms(l) ==
  CASE l = 1 -> {Slab(0, 0, 1000, 1500, 0)}
    [] l = 2 -> {Slab(0, 0, 1500, 2000, 0)}
    [] l = 3 -> {Slab(0, 0, 400, 400, 850),
                 Slab(1200, 0 - 800, 400, 400, 650),
                 Slab(0 - 1000, 1000, 500, 500, 150),
                 Slab(600, 0 - 400, 200, 200, 750),
                 Slab(200, 200, 200, 200, 400),
                 Slab(0, 0, 2500, 2500, 0 - 175)}
    [] l = 4 -> {Slab(0, 0, 1250, 1750, 0)}
    [] OTHER -> {}

\* The disc of level 5: a cylinder of radius 18 with its top face at 0
onDisc(l, x, z) == l = 5 /\ x * x + z * z <= 1800 * 1800

over(b, x, z) == Abs(x - b.cx) <= b.hx /\ Abs(z - b.cz) <= b.hz

\* Height of the surface at (x, z): the highest top face there
surfaceAt(l, x, z) ==
  IF onDisc(l, x, z) THEN 0
  ELSE LET tops == {b.top : b \in {c \in platforms(l) : over(c, x, z)}}
       IN CHOOSE t \in tops : \A u \in tops : u <= t

\* The ball centre is over the surface and a radius above it
restsOnSurface(l, p) ==
  /\ (onDisc(l, p.x, p.z) \/ \E b \in platforms(l) : over(b, p.x, p.z))
  /\ p.y = surfaceAt(l, p.x, p.z) + BallRadius

\* The ball is clear of the inner faces of the boundary walls (createWall
\* calls of levels 1, 2 and 4, the circular wall of level 5; level 3 has none)
insideWalls(l, p) ==
  CASE l = 1 -> Abs(p.x) <= 1025 - BallRadius /\ Abs(p.z) <= 1525 - BallRadius
    [] l = 2 -> Abs(p.x) <= 1500 - BallRadius /\ Abs(p.z) <= 2000 - BallRadius
    [] l = 4 -> Abs(p.x) <= 1225 - BallRadius /\ Abs(p.z) <= 1725 - BallRadius
    [] l = 5 -> p.x * p.x + p.z * p.z <= (1850 - BallRadius) * (1850 - BallRadius)
    [] OTHER -> TRUE

\* Resting point over the hole's horizontal position
restingAtHole(l) ==
  HolePoint(l, 0, surfaceAt(l, holePosition(l).x, holePosition(l).z) + BallRadius)

\* Places of each level where a ball may come to rest
restingPlaces(l) ==
  {ballStartPos(l), restingAtHole(l)} \cup
  (CASE l = 1 -> {Vec3(950, 30, 1450)}
     [] l = 2 -> {Vec3(1400, 30, 1400), Vec3(0 - 1400, 30, 0 - 1900)}
     [] l = 3 -> {Vec3(1580, 680, 0 - 800), Vec3(2000, 0 - 145, 0)}
     [] l = 4 -> {Vec3(1190, 30, 1690)}
     [] l = 5 -> {Vec3(1270, 30, 1270)}
     [] OTHER -> {})

SurfaceOutcomes(l, v, f) ==
  {Outcome(p, ZeroVec, [c |-> 1, s |-> 0]) :
     p \in {q \in restingPlaces(l) : restsOnSurface(l, q) /\ insideWalls(l, q)}}

SurfacePoints == {Point(0, 0, 0), Point(5, 0 - 12, 0)}

InitSurface == NoPage /\ \E l \in Levels : Constructed(l)

NextSurface ==
  Handlers(SurfacePoints, Buttons, ButtonMasks, WheelDeltas,
           SurfaceOutcomes(currentLevel, ballVel, ballForce), FrameDeltas, Clock)

SpecSurface == InitSurface /\ [][NextSurface]_vars

-----------------------------------------------------------------------------
(* Properties of the hole capture, the reset and the shot controller *)

Frame == lastEvent = "animate"
LeftReleaseEndedAiming == lastEvent \in {"shotFired", "shotCancelled"}
LeftPress == lastEvent \in {"aimBegun", "aimRefused"}
FullyReset ==
  /\ strokes = 0
  /\ ballPos = ballStartPos(currentLevel)
  /\ ballVel = ZeroVec
  /\ ballAngVel = ZeroVec
  /\ ~ballInHole
  /\ ~holeCompletedTriggered

\* The capture condition of the frame loop at the position the physics step
\* left: within holeRadius of the hole centre, in the ground band
CaptureConditionHolds ==
  LET h == holePosition(currentLevel)
  IN /\ Lt(HDist2(frame.pos, h.x, h.z), 54 * 54)
     /\ Le(frame.pos.y, 35) /\ Gt(frame.pos.y, 0 - 5)

\* C1: onLevelComplete is invoked exactly once per capture attempt: once the
\* ball is in the hole the callback has run exactly once since the last reset,
\* before that it has not run, and it runs only in the frame in which the
\* capture begins, never in a later frame of the same attempt.
LevelCompleteOncePerAttempt ==
  /\ callsThisAttempt = (IF ballInHole THEN 1 ELSE 0)
  /\ Len(completions) <= 1
  /\ completions # <<>> => Frame /\ ~frame.wasInHole /\ frame.branch = "capture"

\* A later frame of an attempt in which the capture condition still holds and
\* the callback is not invoked again
CaptureConditionPersists ==
  /\ Frame /\ frame.wasInHole /\ ~frame.reset
  /\ CaptureConditionHolds
  /\ completions = <<>>
  /\ callsThisAttempt = 1

\* C2: in the frame in which the capture begins the callback is invoked, with
\* the level the engine was constructed with and the number of accepted shots
\* applied since the last reset.
CompletionReportsLevelAndStrokes ==
  /\ (Frame /\ frame.branch = "capture") =>
       completions = <<[level |-> currentLevel, strokes |-> shotsThisAttempt]>>
  /\ completions # <<>> => Frame /\ frame.branch = "capture"

\* A capture reported after two accepted shots
CaptureAfterShots ==
  /\ Frame /\ frame.branch = "capture"
  /\ completions # <<>>
  /\ shotsThisAttempt = 2

\* C3: right after any reset, the public resetBall() or a reset performed by
\* the frame loop, strokes is 0, the ball is at the level's ballStart with zero
\* linear and angular velocity, ballInHole is false and the latch is cleared.
ResetRestoresStart ==
  (lastEvent = "resetBall" \/ (Frame /\ frame.reset)) => FullyReset

\* The frame loop resets a ball that was in the hole
FrameResetFromHole == Frame /\ frame.reset /\ frame.wasInHole /\ FullyReset

\* C4: no impulse is applied and no stroke is counted while the ball is in
\* the hole (the capture state is Capturing or Captured).
NoShotWhileInHole == ballInHole => (impulses = <<>> /\ lastEvent # "shotFired")

\* C5: every left release that ends aiming with a drag longer than 0.05
\* applies exactly one impulse, raises strokes by exactly 1 and leaves
\* isAiming false; nothing else raises strokes.
AcceptedShotCountsOnce ==
  [][/\ (LeftReleaseEndedAiming' /\ aimDistance2(aimStart, aimCurrent) > 1) =>
          (Len(impulses') = 1 /\ strokes' = strokes + 1 /\ ~isAiming')
     /\ strokes' > strokes =>
          (lastEvent' = "shotFired" /\ isAiming /\ strokes' = strokes + 1
           /\ aimDistance2(aimStart, aimCurrent) > 1)]_vars

\* A second accepted shot has just been applied
SecondShotApplied ==
  /\ lastEvent = "shotFired"
  /\ Len(impulses) = 1
  /\ strokes = 2
  /\ ~isAiming
  /\ aimDistance2(aimStart, aimCurrent) > 1

\* C6: a left release that ends aiming with a drag of at most 0.05 cancels the
\* shot: strokes, the ball's velocity and the capture state are unchanged (as
\* is everything else) and only the aiming flag is cleared.
ShortDragCancels ==
  [][(LeftReleaseEndedAiming' /\ isAiming
      /\ aimDistance2(aimStart, aimCurrent) <= 1) =>
        /\ impulses' = <<>>
        /\ ~isAiming'
        /\ UNCHANGED <<currentLevel, ballVars, holeVars, strokes, aimStart,
                       aimCurrent, cameraVars>>]_vars

\* A release with a drag of exactly 0.05 has just been cancelled, after an
\* earlier accepted shot
ThresholdDragCancelled ==
  /\ lastEvent = "shotCancelled"
  /\ aimDistance2(aimStart, aimCurrent) = 1
  /\ strokes = 1
  /\ ~isAiming

\* C7: whatever the camera yaw and zoom, the impulse of an accepted shot is
\* non-zero, has zero vertical component, and its magnitude is
\* min(drag * 52.5, 35).
ImpulseHorizontalAndCapped ==
  \A i \in 1..Len(impulses) :
    LET imp == impulses[i]
        drag2 == aimDistance2(aimStart, aimCurrent)
    IN /\ imp.y = 0
       /\ imp.dir # [x |-> 0, z |-> 0]
       /\ imp.x # 0 \/ imp.z # 0
       /\ imp.powerSq = (IF 275625 * drag2 < 49000000 THEN 275625 * drag2
                         ELSE 49000000)
       /\ imp.powerSq > 0

\* A shot taken with the camera straight above the ball: yaw opposite to the
\* goal direction and distance 2.0
ShotFromAbove ==
  /\ impulses # <<>>
  /\ cameraAngleY = 2
  /\ firstPersonDistance = 20

\* C8: a left press while the ball's speed is 0.5 or more is ignored: it
\* changes nothing.
PressWhileMovingIgnored ==
  [][(LeftPress' /\ ~Lt(Length2(ballVel), 2500)) =>
       (lastEvent' = "aimRefused" /\ UNCHANGED engineVars)]_vars

\* A left press has just been refused with the ball rolling at speed 1.0
PressRefusedWhileRolling ==
  /\ lastEvent = "aimRefused"
  /\ ballVel = Rolling
  /\ ~isAiming

\* The boundary of level l as the levels are laid out: a box of half-extents
\* 10.5 x 15.5 (level 1), 15.5 x 20.5 (level 3), 12.5 x 17.5 (level 4), a disc
\* of radius 19 (levels 2 and 5); below y = -5 everywhere
BeyondBoundary(l, p) ==
  \/ Lt(p.y, 0 - 500)
  \/ /\ l \in {2, 5}
     /\ Gt(HDist2(p, 0, 0), 361 * 10000)
  \/ /\ l \in {1, 3, 4}
     /\ LET bx == CASE l = 1 -> 1050 [] l = 3 -> 1550 [] l = 4 -> 1250
            bz == CASE l = 1 -> 1550 [] l = 3 -> 2050 [] l = 4 -> 1750
        IN Gt(FAbs(p.x), bx) \/ Gt(FAbs(p.z), bz)

NonFinitePositionResets ==
  (Frame /\ ~VecFinite(frame.pos)) => (frame.reset /\ FullyReset)

Disposed == rendererDisposed

\* C11: the collision world is never stepped with more than 1/30 s: whatever
\* time has elapsed, the step taken is min(delta, 1/30).
StepNeverAboveThirtieth ==
  Frame => /\ frame.dt <= 10
           /\ frame.dt = (IF frame.delta < 10 THEN frame.delta ELSE 10)

\* A frame after a one-second stall steps the world by 1/30 s
StalledFrameClamped == Frame /\ frame.delta = 300 /\ frame.dt = 10

\* C12: after dispose() the engine runs no further frame (no animation-frame
\* callback, no physics step) and never invokes onLevelComplete.
NoFrameAfterDispose == Disposed => (~Frame /\ completions = <<>>)

\* C13: after dispose() the mouse events delivered to the canvas no longer
\* change the engine's state: no press begins aiming and no release shoots or
\* clears aiming.
NoInputAfterDispose ==
  Disposed => lastEvent \notin {"aimBegun", "shotFired", "shotCancelled"}

\* C14: a second or later dispose() leaves the engine in the state it found,
\* the one the first call left.
DisposeAgainChangesNothing ==
  [][(lastEvent' \in {"disposed", "disposedAgain"} /\ rendererDisposed) =>
       UNCHANGED engineVars]_vars

\* dispose() has been called again on an engine that had moving blocks
DisposedTwice ==
  /\ lastEvent = "disposedAgain"
  /\ currentLevel = 4
  /\ movingBlocks = 0
  /\ ~treesInScene

\* The engines constructed on the canvas on which dispose() was never called
Undisposed == {i \in 1..Len(engines) : ~engines[i].disposed}

\* C15: at every moment at most one un-disposed engine is attached to the
\* canvas, also when two initialisations overlap.
AtMostOneLiveEngine == Cardinality(Undisposed) <= 1

\* C16: on every level exactly one ball rigid body and exactly one
\* hole-trigger body exist from the end of construction onward: no frame,
\* shot, reset or camera input adds or removes either.
OneBallOneHoleTrigger == ballBodies = 1 /\ holeBodies = 1

\* After a shot the ball has sunk in the hole and been hidden: both bodies
\* are still there
BodiesKeptAfterSinking ==
  /\ ballInHole /\ ~ballVisible
  /\ shotsThisAttempt > 0
  /\ ballBodies = 1 /\ holeBodies = 1

\* C17: an engine constructed with a level id that has no course never
\* reaches the frame loop: every frame runs with a hole trigger in the world
\* and no frame throws.
FramesHaveHoleTrigger == Frame => (holeBodies >= 1 /\ ~frame.threw)

\* C18: entering the hole is irreversible within an attempt: the in-hole
\* state persists through every frame and input event, and only a reset (the
\* public one or one performed by the frame loop) ends it.
InHoleUntilReset ==
  [][(ballInHole /\ ~ballInHole') =>
       (lastEvent' = "resetBall" \/ (lastEvent' = "animate" /\ frame'.reset))]_vars

\* A ball in the hole has fallen below the floor threshold after a shot and is
\* still in the hole
StillInHoleBelowFloor ==
  /\ Frame /\ frame.wasInHole /\ ~frame.reset
  /\ Lt(frame.pos.y, 0 - 1000)
  /\ shotsThisAttempt > 0
  /\ ballInHole

\* C19: capture is reached only through attraction: whenever the ball is in
\* the hole, an earlier frame of the same attempt met the attraction
\* conditions and applied the attraction force.
CaptureOnlyAfterAttraction == ballInHole => attractedThisAttempt

\* Effects of the hole logic visible after a frame
CaptureEntered == Frame /\ ballInHole /\ ~frame.wasInHole
AttractionApplied == Frame /\ ~ballInHole /\ ballForce # ZeroVec
RimDeflected == Frame /\ frame.branch = "rim"

\* C20: a frame applies at most one of capture entry, attraction force and
\* rim deflection, and none when the ball was in the hole at the start of the
\* frame; a rim deflection never sets the in-hole state and never invokes the
\* completion callback.
OneHoleBranchPerFrame ==
  /\ (Frame /\ frame.branch # "none") => ~frame.wasInHole
  /\ CaptureEntered => (frame.branch = "capture" /\ ~AttractionApplied)
  /\ AttractionApplied => frame.branch = "attract"
  /\ RimDeflected =>
       (~ballInHole /\ ~holeCompletedTriggered /\ completions = <<>>
        /\ ~AttractionApplied /\ ~CaptureEntered)

\* A fast ball on the rim has just been deflected
RimDeflectionApplied ==
  /\ RimDeflected
  /\ ~frame.wasInHole
  /\ ~ballInHole
  /\ Gt(ballVel.y, 0)

\* The ball has sunk: in the hole, hidden, and no capture force applied
Sunk == ballInHole /\ ~ballVisible /\ ballForce = ZeroVec

\* C21: once capture has begun and no reset occurs, the ball eventually
\* descends below the fall depth and becomes Sunk: invisible, with the
\* capture forces stopped.
CaptureLeadsToSunk == ballInHole ~> (Sunk \/ ~ballInHole)

-----------------------------------------------------------------------------
(* Properties of the moving barriers *)

\* Displacement of a block from its start, squared
Displacement2(i) ==
  LET b == blockPositions[i].body
      s0 == barriers(currentLevel)[i].startPos
  IN (b.x - s0.x) * (b.x - s0.x) + (b.y - s0.y) * (b.y - s0.y)
     + (b.z - s0.z) * (b.z - s0.z)

\* C22: after every frame on the hazard level each moving hazard has its body
\* and its mesh at the same position, which is start + direction * range *
\* sin(t * speed + i * pi / 3): a function of the time of the frame and the
\* hazard's parameters alone, never further than range from the start.
HazardsFollowSine ==
  (Frame /\ currentLevel = 4) =>
     \A i \in 1..Len(blockPositions) :
        LET b == barriers(4)[i]
            angle == (frame.now * b.speed) \div 10 + ((i - 1) * HalfTurn) \div 3
            along == (sin(angle) * b.range) \div 1000
        IN /\ blockPositions[i].mesh = blockPositions[i].body
           /\ blockPositions[i].body.x = b.startPos.x + b.direction.x * along
           /\ blockPositions[i].body.y = b.startPos.y + b.direction.y * along
           /\ blockPositions[i].body.z = b.startPos.z + b.direction.z * along
           /\ Displacement2(i) <= b.range * b.range

\* A frame has moved the first barrier most of its range away from its start
BarrierNearEndOfRange ==
  /\ Frame
  /\ currentLevel = 4
  /\ Len(blockPositions) = 3
  /\ Displacement2(1) > 810000
  /\ blockPositions[1].mesh = blockPositions[1].body

\* C26: every moving barrier of the hazard level stays within the course at
\* all times: over its whole path it remains inside the side walls and the
\* boundary |x| <= 12.5.
BarriersStayInCourse ==
  currentLevel = 4 =>
     \A i \in 1..Len(blockPositions) :
        /\ blockPositions[i].body.x + barriers(4)[i].width \div 2 <= 1250
        /\ blockPositions[i].body.x - barriers(4)[i].width \div 2 >= 0 - 1250

-----------------------------------------------------------------------------
(* Properties of the camera, the contact rules and the frame *)

\* C23: the camera follow distance is always within [1.5, 8]: it starts at a
\* level preset inside the range and every wheel event leaves it clamped.
FollowDistanceWithinRange ==
  /\ 15 <= firstPersonDistance
  /\ firstPersonDistance <= 80
  /\ \A l \in Levels \cup LevelIds :
        15 <= getFirstPersonPreset(l) /\ getFirstPersonPreset(l) <= 80

\* A wheel event has zoomed out as far as the clamp lets it
ZoomedOutToLimit == lastEvent = "none" /\ firstPersonDistance = 80

\* Contact materials of the world for a pair of material names
RulesFor(pair) == {i \in DOMAIN contactMaterials : contactMaterials[i] = pair}

\* C24: after the course is built the contact-rule table holds exactly one
\* rule for each of the pairs ball-ground, ball-wall, ball-bouncyWall,
\* ball-movingBlock and ball-rim.
OneRulePerMaterialPair ==
  \A pair \in {{"ball", "ground"}, {"ball", "wall"}, {"ball", "bouncyWall"},
               {"ball", "movingBlock"}, {"ball", "rim"}} :
     Cardinality(RulesFor(pair)) = 1

\* The phase of a frame a statement of animate() belongs to: hazard update,
\* physics step, visual sync and validity checks, hole capture, camera and
\* render
Phase(step) ==
  CASE step = "updateMovingBlocks" -> 1
    [] step = "worldStep" -> 2
    [] step \in {"nanCheck", "visualSync", "floorCheck", "boundsCheck"} -> 3
    [] step = "holeCapture" -> 4
    [] step \in {"camera", "render"} -> 5

StepsOf(f) == {f.steps[i] : i \in DOMAIN f.steps}

\* C25: within every frame the hazard update precedes the physics step, which
\* precedes the visual sync and the validity checks, which precede the hole
\* capture evaluation, which precedes the camera update and the render; so a
\* frame in which a validity check resets the ball evaluates no hole capture
\* and fires no completion callback.
FrameStepsInOrder ==
  Frame =>
    /\ \A i, j \in DOMAIN frame.steps :
          i < j => Phase(frame.steps[i]) <= Phase(frame.steps[j])
    /\ "worldStep" \in StepsOf(frame)
    /\ (currentLevel = 4 <=> "updateMovingBlocks" \in StepsOf(frame))
    /\ frame.reset =>
         /\ "holeCapture" \notin StepsOf(frame)
         /\ frame.branch = "none"
         /\ completions = <<>>
         /\ ~ballInHole

\* A frame of the hazard level whose bounds check has reset the ball
HazardFrameReset ==
  /\ Frame
  /\ frame.reset
  /\ currentLevel = 4
  /\ "boundsCheck" \in StepsOf(frame)
  /\ frame.pos # ballPos

-----------------------------------------------------------------------------
(* Properties of the level geometry *)

\* C27: on every level 1..5 the hole can be completed: a ball at rest on the
\* playing surface at the hole's horizontal position is inside the
\* ground-level band (-0.05 < y <= 0.35) and inside the level's boundary, so
\* the frame captures it and the completion callback fires.
BallOverHoleIsCaptured ==
  (Frame /\ ~frame.wasInHole /\ frame.pos = restingAtHole(currentLevel)) =>
     /\ frame.pos.y > 0 - 5
     /\ frame.pos.y <= 35
     /\ ~frame.reset
     /\ ballInHole
     /\ Len(completions) = 1

\* C28: on every level the out-of-bounds test agrees with the geometry: a
\* ball resting on the playing surface inside the boundary walls, or on any
\* platform, is never classified out of bounds.
SurfaceNeverOutOfBounds ==
  (Frame /\ restsOnSurface(currentLevel, frame.pos)
         /\ insideWalls(currentLevel, frame.pos)) => ~frame.reset

\* C29: for every level 1..5 the start position passes all validity checks
\* and lies outside the capture, attraction and rim zones of the hole: a
\* frame that finds the ball at the start neither resets it nor fires the
\* completion callback.
StartPositionIsSafe ==
  (Frame /\ frame.pos = ballStartPos(currentLevel)) =>
     /\ ~frame.reset
     /\ frame.branch = "none"
     /\ completions = <<>>
     /\ ballForce = ZeroVec \/ frame.wasInHole
     /\ ballInHole = frame.wasInHole

\* A frame has found the ball of level 3 at rest at its start on the top layer
FrameAtStartOfLayers ==
  /\ Frame
  /\ currentLevel = 3
  /\ frame.pos = ballStartPos(3)
  /\ ballPos = ballStartPos(3)
  /\ ballVel = ZeroVec
  /\ ~ballInHole

-----------------------------------------------------------------------------
(* Properties of the shot under interleaved events *)

\* Velocity of the ball just before the impulse of the last handler
VelocityBeforeImpulse ==
  Vec3(FSub(ballVel.x, impulses[1].x), FSub(ballVel.y, impulses[1].y),
       FSub(ballVel.z, impulses[1].z))

\* C30: a shot impulse is applied only to a ball (nearly) at rest: for every
\* interleaving of mouse events, frames and resets, at the moment shoot
\* applies an impulse the linear speed of the ball is below 0.5.
ImpulseOnlyAtRest ==
  (lastEvent = "shotFired" /\ impulses # <<>>) =>
     Lt(Length2(VelocityBeforeImpulse), 2500)

====
